---- MODULE Spec2Model ----
(***************************************************************************)
(* Model of src/main.go: a CSV sorter.  main() either reads one input      *)
(* (input) or a directory (readDir, fileReadinStage, readFiles), drains    *)
(* the resulting channel into a buffer (sortContent) and sorts it with     *)
(* sort.Slice or with a binary search tree.                                *)
(*                                                                         *)
(* Strings are sequences of byte values, rows are sequences of strings.    *)
(* Every channel of the program is unbuffered: a send and a receive on the *)
(* same channel happen together (Handoff).  A goroutine is a process with  *)
(* a program counter; the values it still has to send are held[p].         *)
(* Signal handling (handler, lines 37-44 and 62-74) is not modelled.       *)
(***************************************************************************)
EXTENDS Integers, Sequences, FiniteSets

VARIABLES
  mode,       \* "dir" (-d given) or "single" (-i or stdin)
  files,      \* dir mode: the files of the directory, in listing order
  inputFile,  \* single mode: the lines of the input
  pc,         \* position of every goroutine
  held,       \* per goroutine: the values it still has to send
  wfile,      \* per reader worker: the identifier it is working on (0: none)
  lines,      \* fileReadinStage's slice `lines`: the channel of each forwarder
  closed,     \* the channels that have been closed
  wg,         \* the sync.WaitGroup counter
  takenBy,    \* history: per identifier, the workers that received it
  buff,       \* sortContent's buffer
  drained,    \* history: the buffer as the drain loop left it
  args,       \* sortContent's parameters header, field, reverse, sortAlgorithm
  t,          \* sortContent's tree (its root)
  i,          \* sortContent's loop index of the tree insertion
  sorted,     \* the global `sorted`
  emitted,    \* what output() was given, <<>> before it ran
  crash       \* "none", or why the process died: "fatal" (log.Fatal), or the
              \* panic "index" (index out of range), "slice" (slice bounds
              \* out of range) or "nil" (nil pointer dereference)

vars == <<mode, files, inputFile, pc, held, wfile, lines, closed, wg, takenBy,
          buff, drained, args, t, i, sorted, emitted, crash>>

----------------------------------------------------------------------------
(* Bounds of the model *)

MaxFiles == 4

MaxLen == 3

MaxField == 2

(* Program constants *)

N == 3

Comma == 44

----------------------------------------------------------------------------
(* Strings: Go compares strings byte by byte *)

RECURSIVE StrLess(_, _)
StrLess(s, u) ==
  IF u = <<>> THEN FALSE
  ELSE IF s = <<>> THEN TRUE
  ELSE IF Head(s) # Head(u) THEN Head(s) < Head(u)
  ELSE StrLess(Tail(s), Tail(u))

StrLeq(s, u) == ~StrLess(u, s)

RECURSIVE SplitRec(_, _)
SplitRec(rest, cur) ==
  IF rest = <<>> THEN <<cur>>
  ELSE IF Head(rest) = Comma THEN <<cur>> \o SplitRec(Tail(rest), <<>>)
  ELSE SplitRec(Tail(rest), Append(cur, Head(rest)))

Split(line) == SplitRec(line, <<>>)

(* Mutants of ScanLoop: one that passes over an empty line and goes on, one
   that puts each row in front of the content. *)
RECURSIVE ScanLoopSkipsEmpty(_, _, _)
ScanLoopSkipsEmpty(rest, n, content) ==
  IF rest = <<>> THEN [fatal |-> FALSE, content |-> content]
  ELSE LET line == Head(rest)
           row  == Split(line)
           n1   == IF n = 0 THEN Len(row) ELSE n
       IN  IF line = <<>> THEN ScanLoopSkipsEmpty(Tail(rest), n, content)
           ELSE IF n1 # Len(row) THEN [fatal |-> TRUE, content |-> content]
           ELSE ScanLoopSkipsEmpty(Tail(rest), n1, Append(content, row))

RECURSIVE ScanLoopPrepends(_, _, _)
ScanLoopPrepends(rest, n, content) ==
  IF rest = <<>> THEN [fatal |-> FALSE, content |-> content]
  ELSE LET line == Head(rest)
           row  == Split(line)
           n1   == IF n = 0 THEN Len(row) ELSE n
       IN  IF line = <<>> THEN [fatal |-> FALSE, content |-> content]
           ELSE IF n1 # Len(row) THEN [fatal |-> TRUE, content |-> content]
           ELSE ScanLoopPrepends(Tail(rest), n1, <<row>> \o content)

(* readContent: the scan loop with its column count n. *)
RECURSIVE ScanLoop(_, _, _)
ScanLoop(rest, n, content) ==
  IF rest = <<>> THEN [fatal |-> FALSE, content |-> content]
  ELSE LET line == Head(rest)
           row  == Split(line)
           n1   == IF n = 0 THEN Len(row) ELSE n
       IN  IF line = <<>> THEN [fatal |-> FALSE, content |-> content]
           ELSE IF n1 # Len(row) THEN [fatal |-> TRUE, content |-> content]
           ELSE ScanLoop(Tail(rest), n1, Append(content, row))

readContent(file) == ScanLoop(file, 0, <<>>)

----------------------------------------------------------------------------
(* Inputs *)

LineB1  == <<98, 44, 49>>        \* "b,1"
LineA2  == <<97, 44, 50>>        \* "a,2"
LineC10 == <<99, 44, 49, 48>>    \* "c,10"
LineA   == <<97>>                \* "a"

FileSet ==
  { <<>>,                        \* an empty file
    <<LineB1>>,
    <<LineA>>,                   \* a file of one column
    <<LineA2, LineC10>>,
    <<LineB1, LineA>> }          \* a column count mismatch

RECURSIVE SeqsUpTo(_, _)
SeqsUpTo(S, n) ==
  IF n = 0 THEN {<<>>}
  ELSE LET shorter == SeqsUpTo(S, n - 1)
       IN  shorter \cup {Append(s, x) : s \in {q \in shorter : Len(q) = n - 1}, x \in S}

RowSet ==
  { <<<<97>>, <<50>>>>,          \* a,2
    <<<<97>>, <<49>>>>,          \* a,1
    <<<<98>>, <<49>>>>,          \* b,1
    <<<<99>>, <<49, 48>>>> }     \* c,10

(* The values of the flags -h, -f, -r, -a that sortContent is called with: the
   rows of the model have two columns, so the field indices 0 and 1 are in
   range and those from 2 on are not; the selectors are 1, 2 and one that is
   neither. *)
Flags ==
  [header : BOOLEAN, field : 0 .. MaxField, reverse : BOOLEAN, sortAlgorithm : 1 .. 3]

DefaultFlags == [header |-> FALSE, field |-> 0, reverse |-> FALSE, sortAlgorithm |-> 1]

----------------------------------------------------------------------------
(* Goroutines and channels *)

Main         == <<"main", 0>>
Enumerator   == <<"readDir", 0>>
Worker(w)    == <<"readFiles", w>>
Forwarder(w) == <<"forward", w>>
Closer       == <<"closer", 0>>
Producer     == <<"input", 0>>

Pool == 0 .. N - 1

Procs ==
  {Main, Enumerator, Closer, Producer}
    \cup {Worker(w) : w \in Pool} \cup {Forwarder(w) : w \in Pool}

NilChan    == <<"nil", 0>>
Fnames     == <<"fnames", 0>>
AllLines   == <<"allLines", 0>>
InputLines == <<"lines", N>>
(* the channel made by the call readFiles(fnames, lines[w]) *)
WorkerLines(w) == <<"lines", w>>

Kind(p) == p[1]

(* The channel a goroutine sends on. *)
SendChan(p) ==
  CASE Kind(p) = "readDir"   -> Fnames
    [] Kind(p) = "readFiles" -> WorkerLines(p[2])
    [] Kind(p) = "forward"   -> AllLines
    [] Kind(p) = "input"     -> InputLines
    [] OTHER                 -> NilChan

(* Mutant of RecvChan: in directory mode sortContent ranges over the channel
   of the file names. *)
RecvChanMainOnFnames(p) ==
  CASE Kind(p) = "readFiles" -> Fnames
    [] Kind(p) = "forward"   -> lines[p[2]]
    [] Kind(p) = "main"      -> IF mode = "dir" THEN Fnames ELSE InputLines
    [] OTHER                 -> NilChan

(* The channel a goroutine ranges over. *)
RecvChan(p) ==
  CASE Kind(p) = "readFiles" -> Fnames
    [] Kind(p) = "forward"   -> lines[p[2]]
    [] Kind(p) = "main"      -> IF mode = "dir" THEN AllLines ELSE InputLines
    [] OTHER                 -> NilChan

(* The channel a goroutine closes. *)
CloseChanOf(p) ==
  CASE Kind(p) = "readDir" -> Fnames
    [] Kind(p) = "closer"  -> AllLines
    [] Kind(p) = "input"   -> InputLines
    [] OTHER               -> NilChan

(* readFiles(fnames, lines[w]) assigns the channel it makes to its own
   parameter: the caller's slice element keeps its value. *)
readFiles(arg, w) == arg

(* Mutant of AfterLastSend: input's goroutine returns without closing. *)
AfterLastSendNoClose(p) ==
  CASE Kind(p) = "readDir"   -> "close"
    [] Kind(p) = "input"     -> "done"
    [] OTHER                 -> "recv"

(* Where a sender goes when it has sent its last value. *)
AfterLastSend(p) ==
  CASE Kind(p) = "readDir"   -> "close"
    [] Kind(p) = "input"     -> "close"
    [] OTHER                 -> "recv"

(* Where a receiver goes when its channel is closed. *)
AfterRange(p) == IF p = Main THEN "sort" ELSE "done"

Running == crash = "none"

Idle == [p \in Procs |-> "idle"]

----------------------------------------------------------------------------
(* The sort engine *)

(* The comparator of lines 223-228, on the slice buff[h:]: x and y are indices
   into the slice.  Indexing a row beyond its length panics. *)
FieldInRange(b, h, field, x, y) ==
  /\ field < Len(b[x + h + 1])
  /\ field < Len(b[y + h + 1])

(* Mutants of less: one that ignores reverse, one that compares with <=. *)
lessIgnoresReverse(b, h, field, reverse, x, y) ==
  StrLess(b[x + h + 1][field + 1], b[y + h + 1][field + 1])

lessOrEqual(b, h, field, reverse, x, y) ==
  IF reverse
  THEN StrLeq(b[y + h + 1][field + 1], b[x + h + 1][field + 1])
  ELSE StrLeq(b[x + h + 1][field + 1], b[y + h + 1][field + 1])

less(b, h, field, reverse, x, y) ==
  IF reverse
  THEN StrLess(b[y + h + 1][field + 1], b[x + h + 1][field + 1])
  ELSE StrLess(b[x + h + 1][field + 1], b[y + h + 1][field + 1])

Swap(b, h, x, y) ==
  [b EXCEPT ![x + h + 1] = b[y + h + 1], ![y + h + 1] = b[x + h + 1]]

(* sort.Slice on fewer than 12 elements is an insertion sort:
     for k := 1; k < n; k++ { for j := k; j > 0 && less(j, j-1); j-- { swap(j, j-1) } } *)
RECURSIVE InnerLoop(_, _, _, _, _)
InnerLoop(st, h, field, reverse, j) ==
  IF j = 0 THEN st
  ELSE IF ~FieldInRange(st.buff, h, field, j, j - 1)
       THEN [panic |-> "index", buff |-> st.buff]
  ELSE IF less(st.buff, h, field, reverse, j, j - 1)
       THEN InnerLoop([st EXCEPT !.buff = Swap(st.buff, h, j, j - 1)],
                      h, field, reverse, j - 1)
  ELSE st

RECURSIVE OuterLoop(_, _, _, _, _, _)
OuterLoop(st, h, field, reverse, k, n) ==
  IF k >= n \/ st.panic # "none" THEN st
  ELSE OuterLoop(InnerLoop(st, h, field, reverse, k), h, field, reverse, k + 1, n)

(* sort.Slice(buff[h:], ...): slicing beyond the length panics. *)
SortSlice(b, h, field, reverse) ==
  IF h > Len(b) THEN [panic |-> "slice", buff |-> b]
  ELSE OuterLoop([panic |-> "none", buff |-> b], h, field, reverse, 1, Len(b) - h)

(* A tree node is <<data, left, right>>; nil is <<>>. *)
Nil == <<>>

NewNode(data) == <<data, Nil, Nil>>

(* Mutant of GoesLeft: data[field] < n.data[field]. *)
GoesLeftStrict(data, n, field) == StrLess(data[field + 1], n[1][field + 1])

(* data[field] <= n.data[field] *)
GoesLeft(data, n, field) == StrLeq(data[field + 1], n[1][field + 1])

RECURSIVE Node_insert(_, _, _)
Node_insert(n, data, field) ==
  IF n = Nil THEN [panic |-> "none", node |-> n]
  ELSE IF ~(field < Len(data) /\ field < Len(n[1]))
       THEN [panic |-> "index", node |-> n]
  ELSE IF GoesLeft(data, n, field)
       THEN IF n[2] = Nil
            THEN [panic |-> "none", node |-> <<n[1], NewNode(data), n[3]>>]
            ELSE LET r == Node_insert(n[2], data, field)
                 IN  [panic |-> r.panic, node |-> <<n[1], r.node, n[3]>>]
  ELSE IF n[3] = Nil
       THEN [panic |-> "none", node |-> <<n[1], n[2], NewNode(data)>>]
       ELSE LET r == Node_insert(n[3], data, field)
            IN  [panic |-> r.panic, node |-> <<n[1], n[2], r.node>>]

(* Mutant of Tree_insert: the field of the row is read for the root too. *)
Tree_insertReadsField(root, data, field) ==
  IF ~(field < Len(data)) THEN [panic |-> "index", node |-> root]
  ELSE IF root = Nil THEN [panic |-> "none", node |-> NewNode(data)]
  ELSE Node_insert(root, data, field)

Tree_insert(root, data, field) ==
  IF root = Nil THEN [panic |-> "none", node |-> NewNode(data)]
  ELSE Node_insert(root, data, field)

(* Mutant of rewriteTree: the right subtree is not visited. *)
RECURSIVE rewriteTreeSkipsRight(_)
rewriteTreeSkipsRight(node) ==
  (IF node[2] # Nil THEN rewriteTreeSkipsRight(node[2]) ELSE <<>>) \o <<node[1]>>

(* Mutant of rewriteTree: the right subtree is visited before the left. *)
RECURSIVE rewriteTreeRightFirst(_)
rewriteTreeRightFirst(node) ==
  (IF node[3] # Nil THEN rewriteTreeRightFirst(node[3]) ELSE <<>>)
    \o <<node[1]>>
    \o (IF node[2] # Nil THEN rewriteTreeRightFirst(node[2]) ELSE <<>>)

(* rewriteTree on a node that is not nil: what it appends to `sorted`. *)
RECURSIVE rewriteTree(_)
rewriteTree(node) ==
  (IF node[2] # Nil THEN rewriteTree(node[2]) ELSE <<>>)
    \o <<node[1]>>
    \o (IF node[3] # Nil THEN rewriteTree(node[3]) ELSE <<>>)

Reverse(seq) == [k \in 1 .. Len(seq) |-> seq[Len(seq) + 1 - k]]

(* Mutant of RewriteRoot: the traversal honours the reverse flag. *)
RewriteRootHonoursReverse(root, out) ==
  IF root = Nil THEN [panic |-> "nil", sorted |-> out]
  ELSE [panic |-> "none",
        sorted |-> out \o (IF args.reverse THEN Reverse(rewriteTree(root))
                                           ELSE rewriteTree(root))]

(* t.root.rewriteTree(): reading node.left of a nil root panics. *)
RewriteRoot(root, out) ==
  IF root = Nil THEN [panic |-> "nil", sorted |-> out]
  ELSE [panic |-> "none", sorted |-> out \o rewriteTree(root)]

(* Mutant of HeaderOffset: the header flag is ignored. *)
HeaderOffsetZero(header) == 0

(* h, lines 217-220 *)
HeaderOffset(header) == IF header THEN 1 ELSE 0

(* Mutant of NoCase: the buffer becomes the result. *)
NoCaseKeepsBuffer(b, out) == b

(* The switch of lines 221-237 has no default: with a selector that is
   neither 1 nor 2 nothing is assigned, `sorted` keeps its value. *)
NoCase(b, out) == out

----------------------------------------------------------------------------
InitRest ==
  /\ pc = [Idle EXCEPT ![Main] = "start"]
  /\ held = [p \in Procs |-> <<>>]
  /\ wfile = [w \in Pool |-> 0]
  /\ lines = [w \in Pool |-> NilChan]
  /\ closed = {}
  /\ wg = 0
  /\ takenBy = [f \in 1 .. Len(files) |-> <<>>]
  /\ buff = <<>>
  /\ drained = <<>>
  /\ args = DefaultFlags
  /\ t = <<>>
  /\ i = 0
  /\ sorted = <<>>
  /\ emitted = <<>>
  /\ crash = "none"

Init ==
  /\ mode \in {"dir", "single"}
  /\ files \in IF mode = "dir" THEN SeqsUpTo(FileSet, MaxFiles) ELSE {<<>>}
  /\ inputFile \in IF mode = "single" THEN FileSet ELSE {<<>>}
  /\ InitRest

SortVarsUnchanged == UNCHANGED <<buff, drained, args, t, i, sorted, emitted>>

(* main, lines 51-53: readDir starts the enumerator; fileReadinStage makes the
   nil slice `lines`, calls readFiles N times, starts N forwarders (wg.Add(1)
   before each) and the closer; main goes on to sortContent's drain. *)
MainDir ==
  /\ Running
  /\ pc[Main] = "start"
  /\ mode = "dir"
  /\ lines' = [w \in Pool |-> readFiles(NilChan, w)]
  /\ wg' = N
  /\ held' = [held EXCEPT ![Enumerator] = [k \in 1 .. Len(files) |-> k]]
  /\ pc' = [p \in Procs |->
              CASE p = Main               -> "recv"
                [] p = Enumerator         -> IF files = <<>> THEN "close" ELSE "send"
                [] Kind(p) = "readFiles"  -> "recv"
                [] Kind(p) = "forward"    -> "recv"
                [] p = Closer             -> "close"
                [] OTHER                  -> pc[p]]
  /\ UNCHANGED <<mode, files, inputFile, wfile, closed, takenBy, crash>>
  /\ SortVarsUnchanged

(* main, line 55: input() reads the whole input, then starts the goroutine
   that sends the rows and closes the channel. *)
MainInput ==
  /\ Running
  /\ pc[Main] = "start"
  /\ mode = "single"
  /\ LET r == readContent(inputFile)
     IN  IF r.fatal
         THEN /\ crash' = "fatal"
              /\ UNCHANGED <<pc, held>>
         ELSE /\ held' = [held EXCEPT ![Producer] = r.content]
              /\ pc' = [pc EXCEPT ![Main] = "recv",
                                  ![Producer] = IF r.content = <<>> THEN "close" ELSE "send"]
              /\ UNCHANGED crash
  /\ UNCHANGED <<mode, files, inputFile, wfile, lines, closed, wg, takenBy>>
  /\ SortVarsUnchanged

(* A send and a receive on the same unbuffered channel.  The receiver is a
   reader worker (line 122), a forwarder (line 105) or sortContent (line 213);
   the sender is the enumerator (85), a worker (130), a forwarder (106) or
   input's goroutine (163). *)
Handoff ==
  /\ Running
  /\ \E s \in Procs, r \in Procs :
       /\ pc[s] = "send"
       /\ pc[r] = "recv"
       /\ SendChan(s) = RecvChan(r)
       /\ SendChan(s) # NilChan
       /\ SendChan(s) \notin closed
       /\ LET v    == Head(held[s])
              rest == Tail(held[s])
              spc  == IF rest = <<>> THEN AfterLastSend(s) ELSE "send"
          IN  /\ pc' = [pc EXCEPT ![s] = spc,
                                  ![r] = CASE Kind(r) = "readFiles" -> "open"
                                           [] Kind(r) = "forward"   -> "send"
                                           [] OTHER                 -> "recv"]
              /\ held' = [held EXCEPT ![s] = rest,
                                      ![r] = IF Kind(r) = "forward" THEN <<v>> ELSE held[r]]
              /\ wfile' = IF Kind(r) = "readFiles"
                          THEN [wfile EXCEPT ![r[2]] = v] ELSE wfile
              /\ takenBy' = IF Kind(r) = "readFiles"
                            THEN [takenBy EXCEPT ![v] = Append(@, r[2])] ELSE takenBy
              /\ buff' = IF r = Main THEN Append(buff, v) ELSE buff
  /\ UNCHANGED <<mode, files, inputFile, lines, closed, wg, drained, args, t, i,
                 sorted, emitted, crash>>

(* readFiles, lines 123-128: open the file and parse it. *)
WorkerRead ==
  /\ Running
  /\ \E w \in Pool :
       /\ pc[Worker(w)] = "open"
       /\ LET r == readContent(files[wfile[w]])
          IN  IF r.fatal
              THEN /\ crash' = "fatal"
                   /\ UNCHANGED <<pc, held>>
              ELSE /\ held' = [held EXCEPT ![Worker(w)] = r.content]
                   /\ pc' = [pc EXCEPT ![Worker(w)] =
                               IF r.content = <<>> THEN "recv" ELSE "send"]
                   /\ UNCHANGED crash
  /\ UNCHANGED <<mode, files, inputFile, wfile, lines, closed, wg, takenBy>>
  /\ SortVarsUnchanged

(* close(fnames) (line 88), close(lines) (line 165), and wg.Wait() followed by
   close(allLines) (lines 112-113). *)
CloseChan ==
  /\ Running
  /\ \E p \in Procs :
       /\ pc[p] = "close"
       /\ p = Closer => wg = 0
       /\ closed' = closed \cup {CloseChanOf(p)}
       /\ pc' = [pc EXCEPT ![p] = "done"]
  /\ UNCHANGED <<mode, files, inputFile, held, wfile, lines, wg, takenBy, crash>>
  /\ SortVarsUnchanged

(* A range loop over a closed channel ends: a worker returns (line 132), a
   forwarder calls wg.Done() (line 108), sortContent goes on to sort (217). *)
RangeEnd ==
  /\ Running
  /\ \E r \in Procs :
       /\ pc[r] = "recv"
       /\ RecvChan(r) \in closed
       /\ pc' = [pc EXCEPT ![r] = AfterRange(r)]
       /\ wg' = IF Kind(r) = "forward" THEN wg - 1 ELSE wg
  /\ UNCHANGED <<mode, files, inputFile, held, wfile, lines, closed, takenBy, crash>>
  /\ SortVarsUnchanged

PipeVarsUnchanged ==
  UNCHANGED <<mode, files, inputFile, held, wfile, lines, closed, wg, takenBy>>

(* sortContent, lines 217-237, entered when the drain loop has ended, with the
   values of its parameters: case 1 sorts in place and sets `sorted`; case 2
   starts the insertion loop; any other selector does nothing. *)
SortSwitch ==
  /\ Running
  /\ pc[Main] = "sort"
  /\ drained' = buff
  /\ \E a \in Flags :
       /\ args' = a
       /\ LET h == HeaderOffset(a.header)
              r == SortSlice(buff, h, a.field, a.reverse)
          IN  CASE a.sortAlgorithm = 1 ->
                     IF r.panic # "none"
                     THEN /\ crash' = r.panic
                          /\ buff' = r.buff
                          /\ UNCHANGED <<pc, sorted, t, i>>
                     ELSE /\ buff' = r.buff
                          /\ sorted' = r.buff
                          /\ pc' = [pc EXCEPT ![Main] = "output"]
                          /\ UNCHANGED <<crash, t, i>>
                [] a.sortAlgorithm = 2 ->
                     /\ t' = Nil
                     /\ i' = h
                     /\ pc' = [pc EXCEPT ![Main] = "insert"]
                     /\ UNCHANGED <<crash, buff, sorted>>
                [] OTHER ->
                     /\ sorted' = NoCase(buff, sorted)
                     /\ pc' = [pc EXCEPT ![Main] = "output"]
                     /\ UNCHANGED <<crash, buff, t, i>>
  /\ UNCHANGED emitted
  /\ PipeVarsUnchanged

(* sortContent, lines 233-235: one turn of the insertion loop. *)
InsertStep ==
  /\ Running
  /\ pc[Main] = "insert"
  /\ i < Len(buff)
  /\ LET r == Tree_insert(t, buff[i + 1], args.field)
     IN  IF r.panic # "none"
         THEN /\ crash' = r.panic
              /\ UNCHANGED <<t, i>>
         ELSE /\ t' = r.node
              /\ i' = i + 1
              /\ UNCHANGED crash
  /\ UNCHANGED <<pc, buff, drained, args, sorted, emitted>>
  /\ PipeVarsUnchanged

(* sortContent, line 236: the loop has ended, t.root.rewriteTree(). *)
RewriteStep ==
  /\ Running
  /\ pc[Main] = "insert"
  /\ i >= Len(buff)
  /\ LET r == RewriteRoot(t, sorted)
     IN  IF r.panic # "none"
         THEN /\ crash' = r.panic
              /\ UNCHANGED <<pc, sorted>>
         ELSE /\ sorted' = r.sorted
              /\ pc' = [pc EXCEPT ![Main] = "output"]
              /\ UNCHANGED crash
  /\ UNCHANGED <<buff, drained, args, t, i, emitted>>
  /\ PipeVarsUnchanged

(* main, line 59: output(sorted). *)
Output ==
  /\ Running
  /\ pc[Main] = "output"
  /\ emitted' = sorted
  /\ pc' = [pc EXCEPT ![Main] = "done"]
  /\ UNCHANGED <<buff, drained, args, t, i, sorted, crash>>
  /\ PipeVarsUnchanged

Next ==
  \/ MainDir \/ MainInput \/ Handoff \/ WorkerRead \/ CloseChan \/ RangeEnd
  \/ SortSwitch \/ InsertStep \/ RewriteStep \/ Output

Spec == Init /\ [][Next]_vars

(* The single-input program on well-formed inputs of up to MaxLen rows. *)
Join(row) == row[1] \o <<Comma>> \o row[2]

WellFormedInputs ==
  {[k \in 1 .. Len(c) |-> Join(c[k])] : c \in SeqsUpTo(RowSet, MaxLen)}

SortInit ==
  /\ mode = "single"
  /\ files = <<>>
  /\ inputFile \in WellFormedInputs
  /\ InitRest

SortNext ==
  \/ MainInput \/ Handoff \/ CloseChan \/ RangeEnd
  \/ SortSwitch \/ InsertStep \/ RewriteStep \/ Output

SortSpec == SortInit /\ [][SortNext]_vars

(* The single-input program on inputs of up to MaxLen lines, empty lines and
   lines of one or two columns among them. *)
LineSet == {<<>>, LineA, LineA2, LineB1}

ParseInit ==
  /\ mode = "single"
  /\ files = <<>>
  /\ inputFile \in SeqsUpTo(LineSet, MaxLen)
  /\ InitRest

ParseSpec == ParseInit /\ [][SortNext]_vars

(* The same with the scheduler's guarantee that a goroutine which can run
   does run. *)
ParseFairSpec == ParseInit /\ [][SortNext]_vars /\ WF_vars(SortNext)

----------------------------------------------------------------------------
(* Properties of the directory pipeline *)

Rows(file) == readContent(file).content

RECURSIVE TotalRows(_)
TotalRows(fs) == IF fs = <<>> THEN 0 ELSE Len(Rows(Head(fs))) + TotalRows(Tail(fs))

(* The directory pipeline has started and no goroutine can take a step. *)
DirStopped == mode = "dir" /\ pc[Main] # "start" /\ Running /\ ~ENABLED Next

(* C1: in directory mode on well-formed files the pipeline terminates: whenever
   no goroutine can take a step any more, the merged stream is closed, the
   drain loop of sortContent has ended and the buffer held as many rows as all
   files contain together. *)
C1_PipelineTerminates ==
  DirStopped =>
    /\ AllLines \in closed
    /\ pc[Main] \notin {"start", "recv"}
    /\ Len(drained) = TotalRows(files)

(* C2: the stream a forwarder reads is the stream its worker writes: whenever
   worker w offers a row on its output stream, forwarder w ranges over that
   very stream, so the row is handed on. *)
C2_ForwarderReadsWorkerStream ==
  \A w \in Pool :
    pc[Worker(w)] = "send" => RecvChan(Forwarder(w)) = SendChan(Worker(w))

(* C3: the merged stream is closed only when all N forwarders have finished and
   no worker still holds an undelivered row. *)
C3_ClosedAfterAllForwarders ==
  AllLines \in closed =>
    /\ wg = 0
    /\ \A w \in Pool : pc[Forwarder(w)] = "done" /\ held[Worker(w)] = <<>>

(* No reachable state has the merged stream closed: wg.Wait() never returns,
   so the formula of C3 has no case to speak of. *)
MergedStreamNeverClosed == AllLines \notin closed

(* C4: a reader worker that has left its loop over the identifiers has closed
   its own output stream. *)
C4_WorkerClosesItsStream ==
  \A w \in Pool : pc[Worker(w)] = "done" => WorkerLines(w) \in closed

(* C5: every identifier of the listing is taken by exactly one worker exactly
   once: never by more than one, and by one when the pipeline has come to
   rest. *)
C5_EveryIdentifierTakenOnce ==
  /\ \A f \in DOMAIN takenBy : Len(takenBy[f]) <= 1
  /\ DirStopped => \A f \in DOMAIN takenBy : Len(takenBy[f]) = 1

----------------------------------------------------------------------------
(* Properties of the sort engine *)

SortReturned == pc[Main] \in {"output", "done"}

SortEntered == pc[Main] \in {"insert", "output", "done"} \/ crash \in {"index", "slice", "nil"}

H == HeaderOffset(args.header)

F == args.field + 1

Count(seq, x) == Cardinality({k \in DOMAIN seq : seq[k] = x})

IsPermutation(a, b) ==
  /\ Len(a) = Len(b)
  /\ \A k \in DOMAIN b : Count(a, b[k]) = Count(b, b[k])

(* C6: when sortContent has returned, `sorted` holds every buffered row exactly
   once; after the tree sort with header exclusion it holds every buffered row
   but the first exactly once. *)
C6_Permutation ==
  (SortReturned /\ args.sortAlgorithm \in {1, 2}) =>
    IF args.sortAlgorithm = 2 /\ args.header
    THEN drained # <<>> /\ IsPermutation(sorted, Tail(drained))
    ELSE IsPermutation(sorted, drained)

C6_Witness ==
  /\ SortReturned
  /\ args.sortAlgorithm = 2
  /\ args.header
  /\ Len(drained) = 3
  /\ sorted # Tail(drained)

(* C7: after the comparison sort, adjacent rows after the header offset are in
   ascending order of the field, or in descending order with reverse set. *)
C7_ComparisonSortOrdered ==
  (SortReturned /\ args.sortAlgorithm = 1) =>
    \A k \in (H + 1) .. (Len(sorted) - 1) :
      IF args.reverse
      THEN StrLeq(sorted[k + 1][F], sorted[k][F])
      ELSE StrLeq(sorted[k][F], sorted[k + 1][F])

C7_Witness ==
  /\ SortReturned
  /\ args.sortAlgorithm = 1
  /\ args.reverse
  /\ args.header
  /\ Len(sorted) = 3
  /\ sorted # drained

(* C8: the output of the tree sort is in ascending order of the field, with
   the reverse flag set or not. *)
C8_TreeSortAscending ==
  (SortReturned /\ args.sortAlgorithm = 2) =>
    \A k \in 1 .. (Len(sorted) - 1) : StrLeq(sorted[k][F], sorted[k + 1][F])

C8_Witness ==
  /\ SortReturned
  /\ args.sortAlgorithm = 2
  /\ args.reverse
  /\ Len(sorted) = 3
  /\ sorted # drained
  /\ StrLess(sorted[1][F], sorted[3][F])

(* The buffer is in the order the selected sort produces: descending for the
   comparison sort with reverse set, ascending otherwise. *)
AlreadySorted ==
  \A k \in 1 .. (Len(drained) - 1) :
    IF args.sortAlgorithm = 1 /\ args.reverse
    THEN StrLeq(drained[k + 1][F], drained[k][F])
    ELSE StrLeq(drained[k][F], drained[k + 1][F])

NoEqualNeighbours ==
  \A k \in 1 .. (Len(drained) - 1) : drained[k][F] # drained[k + 1][F]

(* C9, as claimed: without header exclusion, sorting a buffer that is already
   sorted on the field yields the same sequence of rows, rows that share a key
   included. *)
C9_Idempotent ==
  (SortReturned /\ args.sortAlgorithm \in {1, 2} /\ ~args.header /\ AlreadySorted) =>
    sorted = drained

(* C9, amended: the comparison sort leaves an already sorted buffer as it is,
   rows that share a key included; the tree sort does when no two rows of the
   buffer share a key. *)
C9_IdempotentUnlessTreeTies ==
  (/\ SortReturned
   /\ args.sortAlgorithm \in {1, 2}
   /\ ~args.header
   /\ AlreadySorted
   /\ args.sortAlgorithm = 2 => NoEqualNeighbours) =>
    sorted = drained

C9_Witness ==
  /\ SortReturned
  /\ args.sortAlgorithm = 1
  /\ ~args.header
  /\ AlreadySorted
  /\ Len(drained) = 3
  /\ \E k \in 1 .. 2 : drained[k][F] = drained[k + 1][F] /\ drained[k] # drained[k + 1]

(* C10: with nothing to sort after the header offset, sortContent ends
   without a panic. *)
C10_EmptyInputNoError ==
  (SortEntered /\ args.sortAlgorithm \in {1, 2} /\ Len(drained) <= H) =>
    crash = "none"

(* C11, as claimed: with a selector that is neither 1 nor 2 the Emitter is
   handed the buffer in its arrival order. *)
C11_EmitterGetsBuffer ==
  (pc[Main] = "done" /\ args.sortAlgorithm \notin {1, 2}) => emitted = drained

(* C11, amended: with a selector that is neither 1 nor 2 sortContent returns
   without an error and leaves the buffer in its arrival order, but `sorted`
   stays empty and the Emitter is handed an empty collection. *)
C11_EmitterGetsNothing ==
  (SortEntered /\ args.sortAlgorithm \notin {1, 2}) =>
    /\ crash = "none"
    /\ buff = drained
    /\ sorted = <<>>
    /\ emitted = <<>>

C11_Witness ==
  /\ pc[Main] = "done"
  /\ args.sortAlgorithm \notin {1, 2}
  /\ Len(drained) = 3
  /\ emitted = <<>>

----------------------------------------------------------------------------
(* Properties of parsing *)

(* The rows that have been parsed and are in the program's hands: those a
   reader worker, a forwarder or input's goroutine still has to send, and
   those in the buffer. *)
RowsAt(p) == {held[p][k] : k \in DOMAIN held[p]}

ParsedRows ==
  UNION {RowsAt(p) : p \in {q \in Procs : Kind(q) \in {"readFiles", "forward", "input"}}}
    \cup {buff[k] : k \in DOMAIN buff}

(* C12: as long as the run has not ended fatally, all rows parsed so far have
   the same field count, in directory mode too, where they come from several
   files read by different workers. *)
C12_UniformWidth ==
  Running => \A r1 \in ParsedRows, r2 \in ParsedRows : Len(r1) = Len(r2)

(* The field count of a line, counted on the line itself. *)
Width(line) == Cardinality({k \in DOMAIN line : line[k] = Comma}) + 1

(* The lines before the first empty line. *)
RECURSIVE UpToEmptyLine(_)
UpToEmptyLine(file) ==
  IF file = <<>> \/ Head(file) = <<>> THEN <<>>
  ELSE <<Head(file)>> \o UpToEmptyLine(Tail(file))

RECURSIVE NonEmptyLines(_)
NonEmptyLines(file) ==
  IF file = <<>> THEN <<>>
  ELSE (IF Head(file) = <<>> THEN <<>> ELSE <<Head(file)>>) \o NonEmptyLines(Tail(file))

Mismatch(ls) == \E k \in DOMAIN ls : Width(ls[k]) # Width(ls[1])

(* input() has called readContent and it has returned or ended the run. *)
Parsed == pc[Main] # "start" \/ crash = "fatal"

(* C13, as claimed: a non-empty line whose field count differs from that of
   the first non-empty line ends the run fatally wherever it stands in the
   file. *)
C13_MismatchAnywhereIsFatal ==
  (Parsed /\ Mismatch(NonEmptyLines(inputFile))) => crash = "fatal"

(* C13, amended: the run ends fatally, with nothing sent and nothing emitted,
   exactly when a line before the first empty line differs in field count from
   the first line; otherwise the lines before the first empty line are the
   rows, and an empty line is no error. *)
C13_MismatchBeforeEmptyLineIsFatal ==
  Parsed =>
    /\ crash = "fatal" <=> Mismatch(UpToEmptyLine(inputFile))
    /\ crash = "fatal" =>
         /\ pc[Main] = "start"
         /\ pc[Producer] = "idle"
         /\ buff = <<>>
         /\ emitted = <<>>
    /\ (crash # "fatal" /\ pc[Main] = "recv") =>
         Len(buff) + Len(held[Producer]) = Len(UpToEmptyLine(inputFile))

C13_Witness ==
  /\ crash = "fatal"
  /\ Len(inputFile) = 3
  /\ inputFile[1] # <<>>
  /\ inputFile[2] # <<>>
  /\ Width(inputFile[2]) = Width(inputFile[1])
  /\ Width(inputFile[3]) # Width(inputFile[1])

(* The rows of a file in line order, taken from its lines. *)
ExpectedRows(file) ==
  LET ls == UpToEmptyLine(file) IN [k \in DOMAIN ls |-> Split(ls[k])]

IsPrefix(a, b) == Len(a) <= Len(b) /\ a = SubSeq(b, 1, Len(a))

IsSuffix(a, b) == Len(a) <= Len(b) /\ a = SubSeq(b, Len(b) - Len(a) + 1, Len(b))

(* C14: the rows of one file enter the buffer in line order: while
   sortContent drains, the buffer is the file's rows up to some line and the
   sender holds the rest in line order; a reader worker offers the rows of its
   file in line order and a forwarder passes on one row at a time. *)
C14_WithinFileOrder ==
  /\ (mode = "single" /\ pc[Main] \in {"recv", "sort"}) =>
       /\ IsPrefix(buff, ExpectedRows(inputFile))
       /\ IsSuffix(held[Producer], ExpectedRows(inputFile))
  /\ mode = "dir" =>
       \A w \in Pool :
         /\ pc[Worker(w)] = "send" =>
              IsSuffix(held[Worker(w)], ExpectedRows(files[wfile[w]]))
         /\ Len(held[Forwarder(w)]) <= 1

C14_Witness ==
  /\ mode = "single"
  /\ pc[Main] = "recv"
  /\ Len(buff) = 2
  /\ buff[1] # buff[2]
  /\ buff = ExpectedRows(inputFile)

----------------------------------------------------------------------------
(* Properties of the hand-over from the pipeline to the sort *)

(* The channel main passes to sortContent (lines 53, 55, 58). *)
MergedStream == IF mode = "dir" THEN AllLines ELSE InputLines

(* The drain loop of sortContent has ended. *)
SortBegun == pc[Main] = "sort" \/ SortEntered

Finished(p) == pc[p] \in {"idle", "done"} /\ held[p] = <<>>

(* C15: whenever the drain loop has ended and the sort may run, the merged
   stream is closed, every reader worker and every forwarder that was started
   has finished, and so has the sender of the single input. *)
C15_SortAfterStreamClosed ==
  SortBegun =>
    /\ MergedStream \in closed
    /\ \A w \in Pool : Finished(Worker(w)) /\ Finished(Forwarder(w))
    /\ Finished(Producer)

C15_Witness ==
  /\ pc[Main] = "insert"
  /\ MergedStream \in closed
  /\ Len(buff) = 2
  /\ i = 1

----------------------------------------------------------------------------
(* Further properties of the sort engine *)

(* C16: the comparison sort with the header flag set on a buffer that is not
   empty leaves the first row where it is and sorts the others among
   themselves; the first row takes part in no comparison: with one row behind
   it nothing is compared at all, whatever the field index. *)
C16_HeaderStaysFirst ==
  (SortEntered /\ args.sortAlgorithm = 1 /\ args.header /\ drained # <<>>) =>
    /\ Len(drained) <= 2 => crash = "none"
    /\ SortReturned =>
         /\ sorted[1] = drained[1]
         /\ IsPermutation(Tail(sorted), Tail(drained))
         /\ \A k \in 2 .. (Len(sorted) - 1) :
              IF args.reverse
              THEN StrLeq(sorted[k + 1][F], sorted[k][F])
              ELSE StrLeq(sorted[k][F], sorted[k + 1][F])

C16_Witness ==
  /\ SortReturned
  /\ args.sortAlgorithm = 1
  /\ args.header
  /\ ~args.reverse
  /\ Len(drained) = 3
  /\ sorted # drained
  /\ StrLess(sorted[2][F], sorted[1][F])

(* The field index is within every buffered row, or beyond every one. *)
FieldValid == \A k \in DOMAIN drained : args.field < Len(drained[k])

FieldBeyond == \A k \in DOMAIN drained : args.field >= Len(drained[k])

(* The number of rows after the header offset. *)
ToSort == Len(drained) - H

(* C17, as claimed: with a field index beyond the rows and at least one row to
   sort, sortContent never returns. *)
C17_OutOfRangeAlwaysFatal ==
  (SortEntered /\ args.sortAlgorithm \in {1, 2} /\ FieldBeyond /\ ToSort >= 1) =>
    ~SortReturned

(* C17, amended: with a field index beyond the rows, two or more rows to sort
   end in the index panic (the comparison sort at once, the tree sort at its
   second insertion) and nothing is emitted; exactly one row to sort is read by
   no comparison, causes no panic and is the result. *)
C17_OutOfRangeFatalFromTwoRows ==
  (SortEntered /\ args.sortAlgorithm \in {1, 2} /\ FieldBeyond) =>
    /\ ToSort >= 2 =>
         /\ ~SortReturned
         /\ emitted = <<>>
         /\ \/ crash = "index"
            \/ /\ args.sortAlgorithm = 2
               /\ crash = "none"
               /\ pc[Main] = "insert"
               /\ i <= H + 1
               /\ ENABLED InsertStep
    /\ ToSort = 1 =>
         /\ crash = "none"
         /\ SortReturned =>
              sorted = IF args.sortAlgorithm = 1 THEN drained ELSE <<drained[H + 1]>>

C17_Witness ==
  /\ crash = "index"
  /\ args.sortAlgorithm = 2
  /\ FieldBeyond
  /\ ToSort = 2
  /\ i = H + 1

(* The rows of a tree, root first. *)
RECURSIVE TreeRows(_)
TreeRows(n) == IF n = Nil THEN <<>> ELSE <<n[1]>> \o TreeRows(n[2]) \o TreeRows(n[3])

RowSetOf(n) == {TreeRows(n)[k] : k \in DOMAIN TreeRows(n)}

RECURSIVE IsSearchTree(_)
IsSearchTree(n) ==
  \/ n = Nil
  \/ /\ \A x \in RowSetOf(n[2]) : StrLeq(x[F], n[1][F])
     /\ \A x \in RowSetOf(n[3]) : StrLess(n[1][F], x[F])
     /\ IsSearchTree(n[2])
     /\ IsSearchTree(n[3])

(* C18: during and after the insertion loop of the tree sort, with a field
   index within the rows, every node has the keys of its left subtree <= its
   own and those of its right subtree > its own, and the tree holds exactly
   the rows inserted so far: the buffered rows from the header offset up to
   the loop index. *)
C18_SearchTreeInvariant ==
  (SortEntered /\ args.sortAlgorithm = 2 /\ FieldValid /\ crash = "none") =>
    /\ IsSearchTree(t)
    /\ H <= Len(drained) => IsPermutation(TreeRows(t), SubSeq(drained, H + 1, i))

C18_Witness ==
  /\ pc[Main] = "insert"
  /\ args.sortAlgorithm = 2
  /\ FieldValid
  /\ i = 3
  /\ t[2] # Nil
  /\ t[3] # Nil

----------------------------------------------------------------------------
(* Properties of the single-input pipeline *)

(* While sortContent drains, the buffer followed by the rows still to be sent
   is the parsed input; the channel is closed when and only when input's
   goroutine has sent every row and has ended; the buffer the sort starts from
   is the parsed input. *)
DrainInOrder ==
  (mode = "single" /\ Parsed /\ crash # "fatal") =>
    /\ pc[Main] = "recv" => buff \o held[Producer] = ExpectedRows(inputFile)
    /\ InputLines \in closed <=> pc[Producer] = "done"
    /\ pc[Producer] = "done" => held[Producer] = <<>>
    /\ pc[Main] = "sort" => buff = ExpectedRows(inputFile)
    /\ SortEntered => drained = ExpectedRows(inputFile)

(* C19: in single-input mode the rows go from input's goroutine to the buffer
   in line order, the channel is closed once, after the last row, the drain of
   sortContent always ends, and the buffer the sort starts from is the parsed
   input in line order, empty for an empty input. *)
C19_SingleInputDrain ==
  /\ []DrainInOrder
  /\ (pc[Main] = "recv") ~> (pc[Main] = "sort" /\ buff = ExpectedRows(inputFile))

C19_Witness ==
  /\ mode = "single"
  /\ pc[Main] = "sort"
  /\ InputLines \in closed
  /\ Len(buff) = 3
  /\ buff[1] # buff[2]

----------------------------------------------------------------------------
(* Tie order of the tree sort *)

(* The rows of seq whose key is key, in their order in seq. *)
RECURSIVE WithKey(_, _)
WithKey(seq, key) ==
  IF seq = <<>> THEN <<>>
  ELSE (IF Head(seq)[F] = key THEN <<Head(seq)>> ELSE <<>>) \o WithKey(Tail(seq), key)

(* C20: in the result of the tree sort the rows that share a key stand in the
   reverse of the order in which they were inserted, that is of their order
   in the buffer after the header offset. *)
C20_TreeSortReversesTies ==
  (SortReturned /\ args.sortAlgorithm = 2 /\ FieldValid /\ H <= Len(drained)) =>
    LET inserted == SubSeq(drained, H + 1, Len(drained))
    IN  \A k \in DOMAIN inserted :
          WithKey(sorted, inserted[k][F]) = Reverse(WithKey(inserted, inserted[k][F]))

C20_Witness ==
  /\ SortReturned
  /\ args.sortAlgorithm = 2
  /\ args.field = 0
  /\ ~args.header
  /\ Len(drained) = 3
  /\ drained[1][1] = drained[3][1]
  /\ drained[1] # drained[3]
  /\ drained[2][1] # drained[1][1]
  /\ sorted # drained

====
